---- MODULE Spec2Model ----
(***************************************************************************)
(* Model of the launch_fund program (programs/launch_fund/src/lib.rs):     *)
(* one campaign account, its vault, the creator and one trader.            *)
(*                                                                         *)
(* Amounts are scaled so that the curve products stay small: one model     *)
(* unit of base currency is 10^7 lamports and one model unit of token is   *)
(* 10^10 token base units.  Ratios (fee basis points, funding percent,     *)
(* slippage basis points) are kept as in the source.                       *)
(*                                                                         *)
(* An instruction that returns Err or panics is rolled back by the         *)
(* runtime: the campaign and every balance keep their values and only the  *)
(* record of the last instruction (last) tells what happened.  Arithmetic  *)
(* that leaves the unsigned range (checked_sub().unwrap(), -= on u64)      *)
(* is modelled as a panic.                                                 *)
(***************************************************************************)
EXTENDS Integers, Sequences, FiniteSets, TLC

\* ---------------------------------------------------------------- constants
INITIAL_VIRTUAL_SOL_RESERVES == 3000
INITIAL_VIRTUAL_TOKEN_RESERVES == 107300
TOTAL_SUPPLY == 100000
FEE_BASIS_POINTS == 100
CREATOR_ALLOCATION_PCT == 10
MIN_FUNDING_RATIO == 10
MAX_FUNDING_RATIO == 90
POST_GOAL_FUNDING_RATIO == 0
SLIPPAGE_BPS == 100
\* 10u128.pow(9) of convert_sol_to_usdc, in model units of base currency
LAMPORTS_PER_SOL == 100
\* get_price_no_older_than(.., 60, ..)
MAX_PRICE_AGE == 60

\* ------------------------------------------------------------------- bounds
MaxOps == 3
MaxTime == 2
TraderLamports == 2500

\* ------------------------------------------------------------------- inputs
Strategies == {"Instant", "OnWithdrawal", "Hybrid"}
Callers == {"creator", "trader"}
FundingRatios == {9, 10, 90, 91}
TargetAmounts == {150, 5000}
EndTimestamps == {1}
Milestone(req, unlock) == [required_amount |-> req, unlock_timestamp |-> unlock]
MilestoneLists ==
    { << Milestone(0, 0) >>,
      << Milestone(10, 0), Milestone(100, 1) >> }
BuyAmounts == {0, 1, 1000}
\* the account passed as `creator`, which receives the fee: a buyer passes
\* the campaign's creator
BuyFeeAccounts == {"creator"}
\* who sells, and the accounts the seller passes as `creator` and as
\* `token_mint`: the campaign's own, or for the trader also the trader's
\* account in place of the creator's, or a mint of the trader's making in
\* place of the campaign's
SellCalls ==
    { [seller |-> "creator", fee_account |-> "creator", mint |-> "campaign"],
      [seller |-> "trader", fee_account |-> "creator", mint |-> "campaign"],
      [seller |-> "trader", fee_account |-> "trader", mint |-> "campaign"],
      [seller |-> "trader", fee_account |-> "creator", mint |-> "other"] }
\* what the oracle and the swap service do during one instruction: the age of
\* the oracle quote in seconds, the quoted price (sol_price.price) and whether
\* the swap fails, delivers the quoted amount, or delivers only the minimum it
\* was asked to guarantee
Env(age, price, swap) == [ age |-> age, price |-> price, swap |-> swap ]
Environments ==
    { Env(61, 200, "fail"), Env(0, 200, "fail"),
      Env(0, 200, "quoted"), Env(0, 50, "min") }

VARIABLES
    created,    \* the campaign account exists
    campaign,   \* the Campaign account
    bal,        \* lamport, USDC and token balances
    now,        \* Clock::get()?.unix_timestamp
    last,       \* the last instruction: inputs, intermediate values, result
    ghost,      \* cumulative funding credited by buys, cumulative payouts
    ops,        \* instructions executed
    quote       \* one call of a curve function: arguments and result

vars == << created, campaign, bal, now, last, ghost, ops, quote >>

\* ----------------------------------------------------------- pure functions
calculate_tokens_out(sol_in, sol_reserves, token_reserves) ==
    LET k == sol_reserves * token_reserves
        new_sol_reserves == sol_reserves + sol_in
        new_token_reserves == k \div new_sol_reserves
    IN  token_reserves - new_token_reserves

calculate_sol_out(tokens_in, sol_reserves, token_reserves) ==
    LET k == sol_reserves * token_reserves
        new_token_reserves == token_reserves + tokens_in
        new_sol_reserves == k \div new_token_reserves
    IN  sol_reserves - new_sol_reserves

\* the Ok value of convert_sol_to_usdc; the Err case is PriceStale
convert_sol_to_usdc(price, sol_amount) ==
    (sol_amount * price) \div LAMPORTS_PER_SOL

PriceStale(age) == age > MAX_PRICE_AGE

\* min_out of execute_jupiter_swap
SwapMinOut(min_usdc_amount) ==
    (min_usdc_amount * (10000 - SLIPPAGE_BPS)) \div 10000

\* what a successful swap delivers to the campaign's USDC account
SwapDelivered(swap, usdc_amount) ==
    IF swap = "quoted" THEN usdc_amount ELSE SwapMinOut(usdc_amount)

TradeFee(amount) == (amount * FEE_BASIS_POINTS) \div 10000

\* ------------------------------------------------------------ initial state
NoCampaign ==
    [ target_amount |-> 0, raised_amount |-> 0,
      funding_pool_amount |-> 0, funding_pool_sol_amount |-> 0,
      end_timestamp |-> 0, is_active |-> FALSE,
      virtual_sol_reserves |-> 0, virtual_token_reserves |-> 0,
      real_sol_reserves |-> 0, real_token_reserves |-> 0,
      token_total_supply |-> 0, tradeable_supply |-> 0,
      creator_token_allocation |-> 0,
      milestones |-> << >>, current_milestone |-> 0,
      funds_withdrawn |-> 0, funding_ratio |-> 0,
      conversion_strategy |-> "Instant" ]

NoBalances ==
    [ trader |-> TraderLamports, vault |-> 0, creator |-> 0,
      campaign_usdc |-> 0, creator_usdc |-> 0,
      trader_tokens |-> 0, creator_tokens |-> 0 ]

NoLast ==
    [ op |-> "none", result |-> "none", caller |-> "none", amount |-> 0,
      pre |-> NoCampaign,
      tokens_out |-> 0, sol_out |-> 0, fee |-> 0, sol_after_fee |-> 0,
      funding_portion |-> 0, liquidity_portion |-> 0,
      conv |-> "none", usdc_amount |-> 0,
      paid_usdc |-> 0, paid_sol |-> 0,
      eligible |-> FALSE,
      after_buy |-> FALSE, buy_amount |-> 0,
      goal_seen |-> FALSE, fee_account |-> "none", mint |-> "none" ]

\* goal_seen: funding_pool_amount >= target_amount held in some earlier state
\* undisturbed: no buy and no emergency withdrawal has succeeded since the
\* first milestone was withdrawn
NoGhost ==
    [ inflow |-> 0, paid |-> 0, goal_seen |-> FALSE, undisturbed |-> TRUE ]

NoQuote ==
    [ op |-> "none", amount |-> 0, sol_reserves |-> 0, token_reserves |-> 0,
      result |-> "none", out |-> 0 ]

Init ==
    /\ quote = NoQuote
    /\ created = FALSE
    /\ campaign = NoCampaign
    /\ bal = NoBalances
    /\ now = 0
    /\ last = NoLast
    /\ ghost = NoGhost
    /\ ops = 0

\* ---------------------------------------------------------- create_campaign
NewCampaign(target_amount, end_timestamp, milestones, funding_ratio, conversion_strategy) ==
    LET tradeable_supply == (TOTAL_SUPPLY * (100 - CREATOR_ALLOCATION_PCT)) \div 100
        creator_tokens == (TOTAL_SUPPLY * CREATOR_ALLOCATION_PCT) \div 100
    IN  [ target_amount |-> target_amount, raised_amount |-> 0,
          funding_pool_amount |-> 0, funding_pool_sol_amount |-> 0,
          end_timestamp |-> end_timestamp, is_active |-> TRUE,
          virtual_sol_reserves |-> INITIAL_VIRTUAL_SOL_RESERVES,
          virtual_token_reserves |-> INITIAL_VIRTUAL_TOKEN_RESERVES,
          real_sol_reserves |-> 0, real_token_reserves |-> tradeable_supply,
          token_total_supply |-> TOTAL_SUPPLY,
          tradeable_supply |-> tradeable_supply,
          creator_token_allocation |-> creator_tokens,
          milestones |-> milestones, current_milestone |-> 0,
          funds_withdrawn |-> 0, funding_ratio |-> funding_ratio,
          conversion_strategy |-> conversion_strategy ]

FundingRatioValidStrict(funding_ratio) ==
    funding_ratio > MIN_FUNDING_RATIO /\ funding_ratio < MAX_FUNDING_RATIO

\* lines 43-47
FundingRatioValid(funding_ratio) ==
    funding_ratio >= MIN_FUNDING_RATIO /\ funding_ratio <= MAX_FUNDING_RATIO

CreateCampaign(target_amount, end_timestamp, milestones, funding_ratio, conversion_strategy) ==
    /\ ~created
    /\ IF ~FundingRatioValid(funding_ratio)
       THEN /\ last' = [ NoLast EXCEPT !.op = "create", !.caller = "creator",
                                       !.amount = funding_ratio,
                                       !.result = "InvalidFundingRatio" ]
            /\ UNCHANGED << created, campaign, bal, now, ghost, ops >>
       ELSE /\ created' = TRUE
            /\ campaign' = NewCampaign(target_amount, end_timestamp, milestones,
                                       funding_ratio, conversion_strategy)
            /\ bal' = [ bal EXCEPT !.creator_tokens =
                            @ + campaign'.creator_token_allocation ]
            /\ last' = [ NoLast EXCEPT !.op = "create", !.caller = "creator",
                                       !.amount = funding_ratio,
                                       !.result = "Ok" ]
            /\ UNCHANGED << now, ghost, ops >>

\* --------------------------------------------------------------- buy_tokens
\* a buy that adds the whole net amount to the reserve
BuyUpdateReservesNet(c, liquidity_portion, tokens_out, sol_after_fee) ==
    [ c EXCEPT !.real_sol_reserves = @ + sol_after_fee,
               !.real_token_reserves = @ - tokens_out,
               !.raised_amount = @ + sol_after_fee ]

\* lines 162-167: reserves and raised_amount
BuyUpdateReserves(c, liquidity_portion, tokens_out, sol_after_fee) ==
    [ c EXCEPT !.real_sol_reserves = @ + liquidity_portion,
               !.real_token_reserves = @ - tokens_out,
               !.raised_amount = @ + sol_after_fee ]

\* Ok arm of the Instant swap
BuyInstantConverted(c, usdc_amount) ==
    [ c EXCEPT !.funding_pool_amount = @ + usdc_amount ]

\* a fallback that stores the SOL and forgets to credit the pool
BuySwapFallbackNoCredit(c, funding_portion) ==
    [ c EXCEPT !.funding_pool_sol_amount = @ + funding_portion ]

\* Err arm of the Instant and of the Hybrid swap: store as SOL
BuySwapFallback(c, funding_portion) ==
    [ c EXCEPT !.funding_pool_sol_amount = @ + funding_portion,
               !.funding_pool_amount = @ + funding_portion ]

\* OnWithdrawal: keep as SOL
BuyDeferred(c, funding_portion) ==
    [ c EXCEPT !.funding_pool_sol_amount = @ + funding_portion,
               !.funding_pool_amount = @ + funding_portion ]

\* Ok arm of the Hybrid swap
BuyHybridConverted(c, usdc_amount, deferred_portion) ==
    [ c EXCEPT !.funding_pool_amount = @ + usdc_amount,
               !.funding_pool_sol_amount = @ + deferred_portion ]

BuyOpenAtEnd(c, t) == t <= c.end_timestamp

\* line 107
BuyOpen(c, t) == t < c.end_timestamp

\* line 121
GoalReached(c) == c.funding_pool_amount >= c.target_amount

\* the amount priced on the curve by buy_tokens (line 111)
BuyCurveInput(sol_amount, liquidity_portion) == sol_amount

\* the whole handler as a function of the state and the inputs:
\* result, new campaign, new balances, and the intermediate values
BuyOutcome(c, b, t, sol_amount, env, fee_account) ==
    LET age == env.age
        price == env.price
        swap == env.swap
        fee == TradeFee(sol_amount)
        sol_after_fee == sol_amount - fee
        funding_goal_reached == GoalReached(c)
        funding_pct == IF funding_goal_reached THEN POST_GOAL_FUNDING_RATIO
                       ELSE c.funding_ratio
        funding_portion == (sol_after_fee * funding_pct) \div 100
        liquidity_portion == sol_after_fee - funding_portion
        tokens_out == calculate_tokens_out(
                          BuyCurveInput(sol_amount, liquidity_portion),
                          c.virtual_sol_reserves + c.real_sol_reserves,
                          c.virtual_token_reserves + c.real_token_reserves)
        converting == funding_portion > 0 /\ ~funding_goal_reached
        strategy == c.conversion_strategy
        instant_portion == funding_portion \div 2
        deferred_portion == funding_portion - instant_portion
        \* the amount handed to the oracle and to the swap
        swap_in == IF strategy = "Hybrid" THEN instant_portion ELSE funding_portion
        usdc_amount == convert_sol_to_usdc(price, swap_in)
        uses_swap == converting /\ strategy \in {"Instant", "Hybrid"}
        swapped == uses_swap /\ swap # "fail"
        c1 == BuyUpdateReserves(c, liquidity_portion, tokens_out, sol_after_fee)
        c2 == IF ~converting THEN c1
              ELSE IF strategy = "OnWithdrawal" THEN BuyDeferred(c1, funding_portion)
              ELSE IF ~swapped THEN BuySwapFallback(c1, funding_portion)
              ELSE IF strategy = "Instant" THEN BuyInstantConverted(c1, usdc_amount)
              ELSE BuyHybridConverted(c1, usdc_amount, deferred_portion)
        b1 == [ b EXCEPT
                  !.trader = @ - sol_after_fee,
                  !.vault = @ + sol_after_fee - (IF swapped THEN swap_in ELSE 0),
                  !.campaign_usdc = @ + (IF swapped
                                         THEN SwapDelivered(swap, usdc_amount)
                                         ELSE 0),
                  !.trader_tokens = @ + tokens_out ]
        \* line 240: the fee goes to the account passed as creator
        b2 == [ b1 EXCEPT ![fee_account] = @ + fee ]
        \* lines 104-164: everything before the conversion
        before_router ==
            IF ~c.is_active THEN "CampaignInactive"
            ELSE IF ~BuyOpen(c, t) THEN "CampaignEnded"
            ELSE IF b.trader < sol_after_fee THEN "TransferFailed"
            ELSE IF tokens_out > c.real_token_reserves THEN "Panic"
            ELSE "Ok"
        \* lines 170-237: what the conversion did
        conv == IF before_router # "Ok" \/ ~converting THEN "none"
                ELSE IF strategy = "OnWithdrawal" THEN "deferred"
                ELSE IF PriceStale(age) THEN "stale"
                ELSE IF swapped THEN "converted" ELSE "fallback"
        result == IF before_router # "Ok" THEN before_router
                  ELSE IF conv = "stale" THEN "StalePrice"
                  ELSE "Ok"
        \* funding credited by this buy, counted once
        credited == IF ~converting THEN 0
                    ELSE IF ~swapped THEN funding_portion
                    ELSE IF strategy = "Instant" THEN usdc_amount
                    ELSE usdc_amount + deferred_portion
    IN  [ result |-> result,
          campaign |-> IF result = "Ok" THEN c2 ELSE c,
          bal |-> IF result = "Ok" THEN b2 ELSE b,
          credited |-> IF result = "Ok" THEN credited ELSE 0,
          info |-> [ NoLast EXCEPT
                       !.op = "buy", !.result = result, !.caller = "trader",
                       !.amount = sol_amount, !.pre = c,
                       !.fee_account = fee_account,
                       !.tokens_out = tokens_out, !.fee = fee,
                       !.sol_after_fee = sol_after_fee,
                       !.funding_portion = funding_portion,
                       !.liquidity_portion = liquidity_portion,
                       !.conv = conv,
                       !.usdc_amount = IF conv = "converted" THEN usdc_amount ELSE 0 ] ]

BuyTokens(sol_amount, env, fee_account) ==
    /\ created
    /\ ops < MaxOps
    /\ \E o \in { BuyOutcome(campaign, bal, now, sol_amount, env, fee_account) } :
           /\ campaign' = o.campaign
           /\ bal' = o.bal
           /\ ghost' = [ ghost EXCEPT
                          !.inflow = @ + o.credited,
                          !.goal_seen = @ \/ GoalReached(o.campaign),
                          !.undisturbed = @ /\ ~( /\ o.result = "Ok"
                                                  /\ campaign.current_milestone > 0 ) ]
           /\ last' = [ o.info EXCEPT !.goal_seen = ghost.goal_seen ]
    /\ ops' = ops + 1
    /\ UNCHANGED << created, now >>

\* -------------------------------------------------------------- sell_tokens
\* lines 294-296: reserves
SellUpdateReserves(c, sol_out, token_amount) ==
    [ c EXCEPT !.real_sol_reserves = @ - sol_out,
               !.real_token_reserves = @ + token_amount ]

\* the liquidity check of lines 271-274
SellHasLiquidity(c, sol_out, sol_after_fee) ==
    c.real_sol_reserves >= sol_after_fee

SellOutcome(c, b, seller, token_amount, prev, accounts) ==
    LET sol_out == calculate_sol_out(
                       token_amount,
                       c.virtual_sol_reserves + c.real_sol_reserves,
                       c.virtual_token_reserves + c.real_token_reserves)
        fee == TradeFee(sol_out)
        sol_after_fee == sol_out - fee
        fee_account == accounts.fee_account
        own_mint == accounts.mint = "campaign"
        \* the seller's balance in the mint passed (lines 606-613); of a mint
        \* of their own making the seller holds whatever the sell needs
        held == IF ~own_mint THEN token_amount
                ELSE IF seller = "creator" THEN b.creator_tokens
                ELSE b.trader_tokens
        \* lines 276-288: burn, and the transfer to the seller
        burnt == IF ~own_mint THEN b
                 ELSE IF seller = "creator"
                 THEN [ b EXCEPT !.creator_tokens = @ - token_amount ]
                 ELSE [ b EXCEPT !.trader_tokens = @ - token_amount ]
        b0 == [ [ burnt EXCEPT !.vault = @ - sol_after_fee ]
              EXCEPT ![seller] = @ + sol_after_fee ]
        \* lines 290-292: the fee goes to the account passed as creator
        b1 == [ [ b0 EXCEPT !.vault = @ - fee ]
              EXCEPT ![fee_account] = @ + fee ]
        result ==
            IF ~c.is_active THEN "CampaignInactive"
            ELSE IF ~SellHasLiquidity(c, sol_out, sol_after_fee)
                 THEN "InsufficientLiquidity"
            ELSE IF held < token_amount THEN "BurnFailed"
            ELSE IF b.vault < sol_after_fee + fee THEN "Panic"
            ELSE IF c.real_sol_reserves < sol_out THEN "Panic"
            ELSE "Ok"
        \* this sell returns exactly the tokens of the buy just before it
        after_buy == /\ prev.op = "buy" /\ prev.result = "Ok"
                     /\ seller = "trader" /\ own_mint
                     /\ token_amount = prev.tokens_out
    IN  [ result |-> result,
          campaign |-> IF result = "Ok"
                       THEN SellUpdateReserves(c, sol_out, token_amount) ELSE c,
          bal |-> IF result = "Ok" THEN b1 ELSE b,
          info |-> [ NoLast EXCEPT
                       !.op = "sell", !.result = result, !.caller = seller,
                       !.amount = token_amount, !.pre = c,
                       !.fee_account = fee_account,
                       !.mint = accounts.mint,
                       !.sol_out = sol_out, !.fee = fee,
                       !.sol_after_fee = sol_after_fee,
                       !.after_buy = after_buy,
                       !.buy_amount = IF after_buy THEN prev.amount ELSE 0 ] ]

SellTokens(seller, token_amount, accounts) ==
    /\ created
    /\ ops < MaxOps
    /\ \E o \in { SellOutcome(campaign, bal, seller, token_amount, last, accounts) } :
           /\ campaign' = o.campaign
           /\ bal' = o.bal
           /\ last' = o.info
    /\ ops' = ops + 1
    /\ UNCHANGED << created, now, ghost >>

\* ------------------------------------------------- withdraw_milestone_funds
\* the share of a pool balance drawn by one withdrawal (lines 344-345,
\* 349-350, 386-388)
WithdrawShare(c, pool_balance) ==
    LET total_milestones == Len(c.milestones)
    IN  pool_balance \div total_milestones

IsCreatorAnyone(caller) == TRUE

\* lines 314-317 and 462-465
IsCreator(caller) == caller = "creator"

\* lines 327-330
MilestoneFunded(c, milestone) ==
    c.funding_pool_amount >= milestone.required_amount

MilestoneUnlockedAlways(milestone, t) == TRUE

\* lines 332-335
MilestoneUnlocked(milestone, t) == t >= milestone.unlock_timestamp

\* lines 375-377: the early return of the OnWithdrawal fallback
WithdrawFallbackCommit(c, sol_to_convert) ==
    [ c EXCEPT !.current_milestone = @ + 1,
               !.funds_withdrawn = @ + sol_to_convert,
               !.funding_pool_sol_amount = @ - sol_to_convert ]

\* a commit that pays out and leaves the milestone pointer where it was
WithdrawCommitNoAdvance(c, total_usdc_to_withdraw, total_sol_converted) ==
    [ c EXCEPT !.funds_withdrawn = @ + total_usdc_to_withdraw,
               !.funding_pool_amount = @ - total_usdc_to_withdraw,
               !.funding_pool_sol_amount = @ - total_sol_converted ]

\* lines 443-446
WithdrawCommit(c, total_usdc_to_withdraw, total_sol_converted) ==
    [ c EXCEPT !.current_milestone = @ + 1,
               !.funds_withdrawn = @ + total_usdc_to_withdraw,
               !.funding_pool_amount = @ - total_usdc_to_withdraw,
               !.funding_pool_sol_amount = @ - total_sol_converted ]

WithdrawOutcome(c, b, t, caller, env) ==
    LET strategy == c.conversion_strategy
        in_range == c.current_milestone < Len(c.milestones)
        milestone == c.milestones[c.current_milestone + 1]
        usdc_portion == IF strategy = "OnWithdrawal" THEN 0
                        ELSE WithdrawShare(c, c.funding_pool_amount)
        sol_portion == IF strategy = "Instant" THEN 0
                       ELSE WithdrawShare(c, c.funding_pool_sol_amount)
        uses_swap == sol_portion > 0
        usdc_from_sol == convert_sol_to_usdc(env.price, sol_portion)
        \* the swap spends the vault's lamports: it cannot succeed without them
        swapped == uses_swap /\ env.swap # "fail" /\ b.vault >= sol_portion
        fallback == uses_swap /\ ~swapped
        total_usdc_to_withdraw ==
            usdc_portion + (IF swapped THEN usdc_from_sol ELSE 0)
        total_sol_converted == IF uses_swap THEN sol_portion ELSE 0
        early_return == fallback /\ strategy = "OnWithdrawal"
        usdc_held == b.campaign_usdc
                     + (IF swapped THEN SwapDelivered(env.swap, usdc_from_sol) ELSE 0)
        paid_usdc == IF early_return THEN 0 ELSE total_usdc_to_withdraw
        paid_sol == IF fallback THEN sol_portion ELSE 0
        b1 == [ b EXCEPT
                  !.vault = @ - (IF uses_swap THEN sol_portion ELSE 0),
                  !.creator = @ + paid_sol,
                  !.campaign_usdc = usdc_held - paid_usdc,
                  !.creator_usdc = @ + paid_usdc ]
        c1 == IF early_return THEN WithdrawFallbackCommit(c, sol_portion)
              ELSE WithdrawCommit(c, total_usdc_to_withdraw, total_sol_converted)
        result ==
            IF ~IsCreator(caller) THEN "Unauthorized"
            ELSE IF ~in_range THEN "AllMilestonesComplete"
            ELSE IF ~MilestoneFunded(c, milestone) THEN "MilestoneNotReached"
            ELSE IF ~MilestoneUnlocked(milestone, t) THEN "MilestoneTooEarly"
            ELSE IF uses_swap /\ PriceStale(env.age) THEN "StalePrice"
            ELSE IF fallback /\ b.vault < sol_portion THEN "Panic"
            ELSE IF paid_usdc > 0 /\ usdc_held < paid_usdc THEN "TransferFailed"
            ELSE IF ~early_return /\ c.funding_pool_amount < total_usdc_to_withdraw
                 THEN "Panic"
            ELSE "Ok"
        ok == result = "Ok"
        conv == IF result = "StalePrice" THEN "stale"
                ELSE IF ~ok \/ ~uses_swap THEN "none"
                ELSE IF swapped THEN "converted" ELSE "fallback"
        \* the guards of lines 319-335, whoever calls
        eligible == /\ in_range
                    /\ MilestoneFunded(c, milestone)
                    /\ MilestoneUnlocked(milestone, t)
    IN  [ result |-> result,
          campaign |-> IF ok THEN c1 ELSE c,
          bal |-> IF ok THEN b1 ELSE b,
          paid |-> IF ok THEN paid_usdc + paid_sol ELSE 0,
          info |-> [ NoLast EXCEPT
                       !.op = "withdraw", !.result = result, !.caller = caller,
                       !.pre = c, !.conv = conv,
                       !.eligible = eligible,
                       !.paid_usdc = IF ok THEN paid_usdc ELSE 0,
                       !.paid_sol = IF ok THEN paid_sol ELSE 0 ] ]

WithdrawMilestoneFunds(caller, env) ==
    /\ created
    /\ ops < MaxOps
    /\ \E o \in { WithdrawOutcome(campaign, bal, now, caller, env) } :
           /\ campaign' = o.campaign
           /\ bal' = o.bal
           /\ ghost' = [ ghost EXCEPT !.paid = @ + o.paid ]
           /\ last' = o.info
    /\ ops' = ops + 1
    /\ UNCHANGED << created, now >>

\* ------------------------------------------------- emergency_withdraw_funds
EmergencyCommit(c, amount) ==
    [ c EXCEPT !.funds_withdrawn = @ + amount,
               !.funding_pool_amount = @ - amount ]

EmergencyAllowedAtEnd(c, t) ==
    t >= c.end_timestamp \/ c.funding_pool_amount < c.target_amount

\* lines 467-472
EmergencyAllowed(c, t) ==
    t > c.end_timestamp \/ c.funding_pool_amount < c.target_amount

EmergencyWithinPoolPlusOne(amount, available) == amount <= available + 1

\* line 475
EmergencyWithinPool(amount, available) == amount <= available

EmergencyOutcome(c, b, t, caller, amount) ==
    LET available == c.funding_pool_amount
        result ==
            IF ~IsCreator(caller) THEN "Unauthorized"
            ELSE IF ~EmergencyAllowed(c, t) THEN "CampaignStillActive"
            ELSE IF ~EmergencyWithinPool(amount, available) THEN "InsufficientFunds"
            ELSE IF b.vault < amount THEN "Panic"
            ELSE "Ok"
        ok == result = "Ok"
    IN  [ result |-> result,
          campaign |-> IF ok THEN EmergencyCommit(c, amount) ELSE c,
          bal |-> IF ok THEN [ b EXCEPT !.vault = @ - amount,
                                        !.creator = @ + amount ]
                  ELSE b,
          paid |-> IF ok THEN amount ELSE 0,
          info |-> [ NoLast EXCEPT
                       !.op = "emergency", !.result = result, !.caller = caller,
                       !.amount = amount, !.pre = c,
                       !.paid_sol = IF ok THEN amount ELSE 0 ] ]

EmergencyWithdrawFunds(caller, amount) ==
    /\ created
    /\ ops < MaxOps
    /\ \E o \in { EmergencyOutcome(campaign, bal, now, caller, amount) } :
           /\ campaign' = o.campaign
           /\ bal' = o.bal
           /\ ghost' = [ ghost EXCEPT
                          !.paid = @ + o.paid,
                          !.undisturbed = @ /\ ~( /\ o.result = "Ok"
                                                  /\ campaign.current_milestone > 0 ) ]
           /\ last' = o.info
    /\ ops' = ops + 1
    /\ UNCHANGED << created, now >>

\* ------------------------------------------------------------ specification
Tick ==
    /\ now < MaxTime
    /\ now' = now + 1
    /\ UNCHANGED << created, campaign, bal, last, ghost, ops >>

CreateStep ==
    \E ta \in TargetAmounts, e \in EndTimestamps, ms \in MilestoneLists,
       fr \in FundingRatios, st \in Strategies :
        CreateCampaign(ta, e, ms, fr, st)

BuyStep ==
    \E a \in BuyAmounts, env \in Environments, fee_account \in BuyFeeAccounts :
        BuyTokens(a, env, fee_account)

\* the least token amount whose gross curve output (line 261) exceeds
\* real_sol_reserves
DrainAmount(c) ==
    LET S == c.virtual_sol_reserves + c.real_sol_reserves
        T == c.virtual_token_reserves + c.real_token_reserves
    IN  IF c.virtual_sol_reserves = 0 THEN 0
        ELSE ((S * T) \div c.virtual_sol_reserves) - T + 1

\* a sell of nothing, of the tokens of the buy just before, of everything the
\* seller holds, of more than that, or of just enough to price above the
\* real reserve
SellAmounts(seller) ==
    LET held == IF seller = "creator" THEN bal.creator_tokens ELSE bal.trader_tokens
    IN  {0, last.tokens_out, held, held + 1, DrainAmount(campaign)}

\* the amounts tried in a call: all of the above with the campaign's own
\* accounts, and the most the real reserve can pay with a substituted one
SellCallAmounts(call) ==
    IF call.fee_account = "creator" /\ call.mint = "campaign"
    THEN SellAmounts(call.seller)
    ELSE {DrainAmount(campaign) - 1}

SellStep ==
    \E call \in SellCalls :
        \E a \in SellCallAmounts(call) : SellTokens(call.seller, a, call)

WithdrawStep ==
    \E caller \in Callers, env \in Environments :
        WithdrawMilestoneFunds(caller, env)

\* the whole pool, one unit more than the pool, or half of it
EmergencyAmounts ==
    { campaign.funding_pool_amount, campaign.funding_pool_amount + 1,
      campaign.funding_pool_amount \div 2 }

EmergencyStep ==
    \E caller \in Callers : \E a \in EmergencyAmounts :
        EmergencyWithdrawFunds(caller, a)

Next ==
    \/ CreateStep /\ UNCHANGED quote
    \/ BuyStep /\ UNCHANGED quote
    \/ SellStep /\ UNCHANGED quote
    \/ WithdrawStep /\ UNCHANGED quote
    \/ EmergencyStep /\ UNCHANGED quote
    \/ Tick /\ UNCHANGED quote

Spec == Init /\ [][Next]_vars

\* ------------------------------------------- the curve functions on their own
QuoteAmounts == {0, 1, 2, 1000}
QuoteSolReserves == {0, 1, 7, 3000}
QuoteTokenReserves == {0, 1, 10, 197300}

InitQuote ==
    /\ quote \in { [ NoQuote EXCEPT !.amount = a, !.sol_reserves = s,
                                     !.token_reserves = t ] :
                      a \in QuoteAmounts, s \in QuoteSolReserves,
                      t \in QuoteTokenReserves }
    /\ created = FALSE
    /\ campaign = NoCampaign
    /\ bal = NoBalances
    /\ now = 0
    /\ last = NoLast
    /\ ghost = NoGhost
    /\ ops = 0

\* the division k / new_sol_reserves panics on a zero divisor
QuoteBuy ==
    /\ quote.op = "none"
    /\ quote' = IF quote.sol_reserves + quote.amount = 0
                THEN [ quote EXCEPT !.op = "buy", !.result = "Panic" ]
                ELSE [ quote EXCEPT !.op = "buy", !.result = "Ok",
                           !.out = calculate_tokens_out(quote.amount,
                                       quote.sol_reserves, quote.token_reserves) ]
    /\ UNCHANGED << created, campaign, bal, now, last, ghost, ops >>

QuoteSell ==
    /\ quote.op = "none"
    /\ quote' = IF quote.token_reserves + quote.amount = 0
                THEN [ quote EXCEPT !.op = "sell", !.result = "Panic" ]
                ELSE [ quote EXCEPT !.op = "sell", !.result = "Ok",
                           !.out = calculate_sol_out(quote.amount,
                                       quote.sol_reserves, quote.token_reserves) ]
    /\ UNCHANGED << created, campaign, bal, now, last, ghost, ops >>

NextQuote == QuoteBuy \/ QuoteSell

SpecQuote == InitQuote /\ [][NextQuote]_vars

\* =================================================================== claims
CurveSol(c) == c.virtual_sol_reserves + c.real_sol_reserves
CurveTokens(c) == c.virtual_token_reserves + c.real_token_reserves
CurveProduct(c) == CurveSol(c) * CurveTokens(c)

BuyOk == last.op = "buy" /\ last.result = "Ok"
SellOk == last.op = "sell" /\ last.result = "Ok"
WithdrawOk == last.op = "withdraw" /\ last.result = "Ok"

\* C1: after every successful buy the real token reserve is the reserve
\* before minus tokensOut and is not negative, and the product of the combined
\* (virtual + real) reserves is at least what it was before the buy.
C1_BuyKeepsCurveProduct ==
    BuyOk =>
        /\ campaign.real_token_reserves
             = last.pre.real_token_reserves - last.tokens_out
        /\ campaign.real_token_reserves >= 0
        /\ CurveProduct(campaign) >= CurveProduct(last.pre)

\* C2: in a buy, tokensOut is the curve quote of the liquidity share against
\* the combined reserves S and T: T - floor(S*T / (S + liquidityShare)).
C2_TokensOutFromLiquidityShare ==
    BuyOk =>
        last.tokens_out
          = CurveTokens(last.pre)
            - ((CurveSol(last.pre) * CurveTokens(last.pre))
                 \div (CurveSol(last.pre) + last.liquidity_portion))

\* C3: for every input of the two curve functions the truncation favours the
\* pool: the product of the reserves after the quoted trade is at least the
\* product before it.
C3_QuoteRoundsForPool ==
    /\ (quote.op = "buy" /\ quote.result = "Ok") =>
          (quote.sol_reserves + quote.amount) * (quote.token_reserves - quote.out)
            >= quote.sol_reserves * quote.token_reserves
    /\ (quote.op = "sell" /\ quote.result = "Ok") =>
          (quote.sol_reserves - quote.out) * (quote.token_reserves + quote.amount)
            >= quote.sol_reserves * quote.token_reserves

\* C4: a successful buy of X > 0 base followed at once by a successful sell of
\* exactly the tokens received pays the seller strictly less than X.
C4_RoundTripLoses ==
    (SellOk /\ last.after_buy /\ last.buy_amount > 0) =>
        last.sol_after_fee < last.buy_amount

\* C5: a milestone withdrawal called by the creator when the index is in
\* range, the pool meets the required amount and the unlock time has come
\* succeeds whatever the oracle and the swap do, and advances the index by 1.
C5_EligibleWithdrawalCompletes ==
    (last.op = "withdraw" /\ last.caller = "creator" /\ last.eligible) =>
        /\ last.result = "Ok"
        /\ campaign.current_milestone = last.pre.current_milestone + 1

\* C6: a buy never fails because of the oracle or the swap: when the quote is
\* stale or the swap fails, the buy succeeds and the funding share is stored
\* as base currency.
C6_BuySurvivesOracleAndSwap ==
    (last.op = "buy" /\ last.conv \in {"stale", "fallback"}) =>
        /\ last.result = "Ok"
        /\ campaign.funding_pool_sol_amount
             = last.pre.funding_pool_sol_amount + last.funding_portion

\* C7: under Instant, when the swap fails during a buy with a non-zero
\* funding share F, the buy succeeds and funding_pool_amount grows by F.
C7_InstantFallbackCreditsPool ==
    ( /\ last.op = "buy"
      /\ last.pre.conversion_strategy = "Instant"
      /\ last.conv = "fallback" ) =>
        /\ last.result = "Ok"
        /\ last.funding_portion > 0
        /\ campaign.funding_pool_amount
             = last.pre.funding_pool_amount + last.funding_portion

C7_Witness ==
    /\ BuyOk
    /\ last.pre.conversion_strategy = "Instant"
    /\ last.conv = "fallback"
    /\ last.funding_portion > 0
    /\ campaign.funding_pool_amount > last.pre.funding_pool_amount

MilestoneStep == campaign.current_milestone - last.pre.current_milestone
WasComplete == last.pre.current_milestone = Len(last.pre.milestones)

\* the part of C8 that is about the index: it moves by exactly 1 on a
\* successful milestone withdrawal and by 0 on a failed one and on every buy,
\* sell and emergency withdrawal
MilestoneIndexSteps ==
    /\ WithdrawOk => MilestoneStep = 1
    /\ (last.op = "withdraw" /\ last.result # "Ok") => MilestoneStep = 0
    /\ last.op \in {"buy", "sell", "emergency"} => MilestoneStep = 0

\* C8 (as stated): the index steps as above and, once it equals the number of
\* milestones, every further milestone withdrawal fails with
\* AllMilestonesComplete.
C8_Original ==
    /\ MilestoneIndexSteps
    /\ (last.op = "withdraw" /\ WasComplete) =>
          last.result = "AllMilestonesComplete"

\* C8 (amended): the index steps as above and, once it equals the number of
\* milestones, every further milestone withdrawal fails: with
\* AllMilestonesComplete when the creator calls, with Unauthorized when
\* anyone else does.
C8_MilestoneIndexMonotone ==
    /\ MilestoneIndexSteps
    /\ (last.op = "withdraw" /\ WasComplete) =>
          last.result = IF last.caller = "creator"
                        THEN "AllMilestonesComplete" ELSE "Unauthorized"

C8_Witness ==
    /\ last.op = "withdraw"
    /\ last.caller = "creator"
    /\ last.result = "AllMilestonesComplete"
    /\ campaign.current_milestone = Len(campaign.milestones)
    /\ campaign.current_milestone > 0

\* C9: on a successful withdrawal of milestone i the amount drawn from the
\* pool is the pool balance divided by the milestones remaining (number of
\* milestones minus i).
C9_ShareOfRemainingMilestones ==
    WithdrawOk =>
        LET pre == last.pre
            remaining == Len(pre.milestones) - pre.current_milestone
        IN  IF pre.conversion_strategy = "Instant"
            THEN pre.funding_pool_amount - campaign.funding_pool_amount
                   = pre.funding_pool_amount \div remaining
            ELSE pre.funding_pool_sol_amount - campaign.funding_pool_sol_amount
                   = pre.funding_pool_sol_amount \div remaining

\* C10: funding_pool_amount + funding_pool_sol_amount never exceeds the
\* funding credited by buys minus what milestone and emergency withdrawals
\* paid out.
C10_PoolWithinInflow ==
    campaign.funding_pool_amount + campaign.funding_pool_sol_amount
      <= ghost.inflow - ghost.paid

\* C11: once funding_pool_amount >= target_amount has held, every later
\* successful buy has funding share 0: the whole net-after-fee amount goes to
\* the real base reserve and both funding pool amounts are unchanged by it.
C11_NoFundingAfterGoal ==
    (BuyOk /\ last.goal_seen) =>
        /\ last.funding_portion = 0
        /\ campaign.real_sol_reserves
             = last.pre.real_sol_reserves + last.sol_after_fee
        /\ campaign.funding_pool_amount = last.pre.funding_pool_amount
        /\ campaign.funding_pool_sol_amount = last.pre.funding_pool_sol_amount

\* C12: in every state real_token_reserves lies between 0 and
\* tradeable_supply; every successful buy makes it smaller and every
\* successful sell makes it larger, whoever the seller is.
C12_TokenReserveWithinSupply ==
    /\ created =>
          /\ campaign.real_token_reserves >= 0
          /\ campaign.real_token_reserves <= campaign.tradeable_supply
    /\ BuyOk =>
          campaign.real_token_reserves < last.pre.real_token_reserves
    /\ SellOk =>
          campaign.real_token_reserves > last.pre.real_token_reserves

\* the part of C12 that does not depend on the amount traded: the range, and
\* the reserve moving by exactly the tokens bought or sold
TokenReserveRange ==
    /\ created =>
          /\ campaign.real_token_reserves >= 0
          /\ campaign.real_token_reserves <= campaign.tradeable_supply
    /\ BuyOk =>
          /\ campaign.real_token_reserves
               = last.pre.real_token_reserves - last.tokens_out
          /\ last.amount > 0 => last.tokens_out > 0
    /\ SellOk =>
          campaign.real_token_reserves
            = last.pre.real_token_reserves + last.amount

\* C13: a sell whose gross curve output (before the fee is deducted) exceeds
\* real_sol_reserves is rejected with InsufficientLiquidity and leaves the
\* campaign unchanged.
C13_GrossOutputAboveReserveRejected ==
    ( /\ last.op = "sell"
      /\ last.pre.is_active
      /\ last.sol_out > last.pre.real_sol_reserves ) =>
        /\ last.result = "InsufficientLiquidity"
        /\ campaign = last.pre

\* a step that executes withdraw_milestone_funds for the creator with the
\* index in range; in such a step now is the time of the call, campaign the
\* campaign before it and campaign' the campaign after it
CreatorWithdrawInRange ==
    /\ ops' = ops + 1
    /\ last'.op = "withdraw"
    /\ last'.caller = "creator"
    /\ campaign.current_milestone < Len(campaign.milestones)

NextMilestone == campaign.milestones[campaign.current_milestone + 1]

\* C14: a milestone withdrawal by the creator with the index in range fails
\* with MilestoneTooEarly when now < unlock_timestamp although the pool meets
\* the required amount, and with MilestoneNotReached when now >=
\* unlock_timestamp but the pool is below the required amount; in both cases
\* the campaign and the balances are unchanged.
C14_TooEarlyVersusNotReached ==
    [][ CreatorWithdrawInRange =>
          /\ ( /\ now < NextMilestone.unlock_timestamp
               /\ campaign.funding_pool_amount >= NextMilestone.required_amount )
             => /\ last'.result = "MilestoneTooEarly"
                /\ campaign' = campaign
                /\ bal' = bal
          /\ ( /\ now >= NextMilestone.unlock_timestamp
               /\ campaign.funding_pool_amount < NextMilestone.required_amount )
             => /\ last'.result = "MilestoneNotReached"
                /\ campaign' = campaign
                /\ bal' = bal
      ]_vars

\* a withdrawal rejected as too early although the pool met the requirement
C14_Witness ==
    /\ last.op = "withdraw"
    /\ last.caller = "creator"
    /\ last.result = "MilestoneTooEarly"
    /\ last.pre.current_milestone < Len(last.pre.milestones)
    /\ last.pre.funding_pool_amount
         >= last.pre.milestones[last.pre.current_milestone + 1].required_amount
    /\ campaign = last.pre

\* a withdrawal rejected as not reached after the unlock time
C14_WitnessNotReached ==
    /\ last.op = "withdraw"
    /\ last.caller = "creator"
    /\ last.result = "MilestoneNotReached"
    /\ campaign = last.pre

\* C15 (as stated): an emergency withdrawal requested for more than
\* funding_pool_amount fails with InsufficientFunds and leaves
\* funding_pool_amount, funding_pool_sol_amount and funds_withdrawn unchanged.
C15_Original ==
    (last.op = "emergency" /\ last.amount > last.pre.funding_pool_amount) =>
        /\ last.result = "InsufficientFunds"
        /\ campaign.funding_pool_amount = last.pre.funding_pool_amount
        /\ campaign.funding_pool_sol_amount = last.pre.funding_pool_sol_amount
        /\ campaign.funds_withdrawn = last.pre.funds_withdrawn

\* a step that executes emergency_withdraw_funds for more than the pool holds
EmergencyAbovePool ==
    /\ ops' = ops + 1
    /\ last'.op = "emergency"
    /\ last'.amount > campaign.funding_pool_amount

\* C15 (amended): an emergency withdrawal requested for more than
\* funding_pool_amount always fails and changes nothing: with Unauthorized
\* when the caller is not the creator, with CampaignStillActive when the
\* creator calls while now <= end_timestamp and the pool has reached
\* target_amount, and with InsufficientFunds otherwise.
C15_AbovePoolRejected ==
    [][ EmergencyAbovePool =>
          /\ last'.result =
               IF last'.caller # "creator" THEN "Unauthorized"
               ELSE IF /\ now <= campaign.end_timestamp
                       /\ campaign.funding_pool_amount >= campaign.target_amount
                    THEN "CampaignStillActive"
               ELSE "InsufficientFunds"
          /\ campaign' = campaign
          /\ bal' = bal
      ]_vars

C15_Witness ==
    /\ last.op = "emergency"
    /\ last.caller = "creator"
    /\ last.amount > last.pre.funding_pool_amount
    /\ last.pre.funding_pool_amount > 0
    /\ last.result = "InsufficientFunds"
    /\ campaign = last.pre

\* a step that executes emergency_withdraw_funds
EmergencyCall ==
    /\ ops' = ops + 1
    /\ last'.op = "emergency"

\* the campaign has passed its end time or its pool is below the target
EndedOrBelowTarget ==
    \/ now > campaign.end_timestamp
    \/ campaign.funding_pool_amount < campaign.target_amount

\* C16: an emergency withdrawal succeeds only when now is past end_timestamp
\* or the pool is below target_amount, otherwise it is rejected and nothing
\* changes; a successful one leaves current_milestone unchanged.
C16_EmergencyOnlyWhenEndedOrShort ==
    [][ EmergencyCall =>
          /\ last'.result = "Ok" => EndedOrBelowTarget
          /\ ~EndedOrBelowTarget =>
                /\ last'.result # "Ok"
                /\ campaign' = campaign
                /\ bal' = bal
          /\ campaign'.current_milestone = campaign.current_milestone
      ]_vars

\* a successful emergency withdrawal from a pool that has reached the target,
\* allowed by the end time alone
C16_Witness ==
    /\ last.op = "emergency"
    /\ last.result = "Ok"
    /\ last.amount > 0
    /\ last.pre.funding_pool_amount >= last.pre.target_amount
    /\ campaign.funding_pool_amount = last.pre.funding_pool_amount - last.amount
    /\ campaign.current_milestone = last.pre.current_milestone

\* C17: create_campaign is rejected with InvalidFundingRatio, creating
\* nothing, when funding_ratio < 10 or > 90, and accepted from 10 to 90, both
\* included; no buy, sell, milestone withdrawal or emergency withdrawal
\* changes funding_ratio, so it lies within [10, 90] in every state.
C17_FundingRatioValidated ==
    /\ last.op = "create" =>
          /\ (last.amount < 10 \/ last.amount > 90) =>
                (last.result = "InvalidFundingRatio" /\ ~created)
          /\ (last.amount >= 10 /\ last.amount <= 90) =>
                /\ last.result = "Ok"
                /\ created
                /\ campaign.funding_ratio = last.amount
    /\ last.op \in {"buy", "sell", "withdraw", "emergency"} =>
          campaign.funding_ratio = last.pre.funding_ratio
    /\ created =>
          (campaign.funding_ratio >= 10 /\ campaign.funding_ratio <= 90)

\* a campaign accepted at the upper limit, traded on and withdrawn from
C17_Witness ==
    /\ created
    /\ campaign.funding_ratio = 90
    /\ campaign.raised_amount > 0
    /\ WithdrawOk

\* a step that executes withdraw_milestone_funds or emergency_withdraw_funds
\* for a caller who is not the creator
NonCreatorWithdrawal ==
    /\ ops' = ops + 1
    /\ last'.op \in {"withdraw", "emergency"}
    /\ last'.caller # "creator"

\* C18: a milestone withdrawal or emergency withdrawal called by anyone but
\* the creator is rejected with Unauthorized and changes no field of the
\* campaign and no balance, whatever the pool, the time and the index are.
C18_OnlyCreatorWithdraws ==
    [][ NonCreatorWithdrawal =>
          /\ last'.result = "Unauthorized"
          /\ campaign' = campaign
          /\ bal' = bal
          /\ ghost' = ghost
      ]_vars

\* a non-creator refused a milestone withdrawal that the creator would have
\* been granted
C18_Witness ==
    /\ last.op = "withdraw"
    /\ last.caller = "trader"
    /\ last.result = "Unauthorized"
    /\ last.eligible
    /\ last.pre.funding_pool_amount > 0
    /\ campaign = last.pre

\* C19: a buy of 0 and a sell of 0 on a campaign that accepts trades fail
\* with InvalidAmount and change nothing.
C19_ZeroAmountRejected ==
    ( /\ last.op \in {"buy", "sell"}
      /\ last.amount = 0
      /\ last.result \notin {"CampaignInactive", "CampaignEnded"} ) =>
        /\ last.result = "InvalidAmount"
        /\ campaign = last.pre

\* C20: once the last milestone has been withdrawn (current_milestone equals
\* the number of milestones) is_active is false, in that state and in every
\* later one.
C20_ClosedAfterLastMilestone ==
    ( /\ created
      /\ Len(campaign.milestones) > 0
      /\ campaign.current_milestone = Len(campaign.milestones) ) =>
        ~campaign.is_active

\* a step that executes buy_tokens, and one that executes sell_tokens
BuyCall == ops' = ops + 1 /\ last'.op = "buy"
SellCall == ops' = ops + 1 /\ last'.op = "sell"

C22_BuySplit ==
    ( /\ BuyOk
      /\ last.pre.funding_pool_amount < last.pre.target_amount ) =>
        LET G == last.amount
            fee == (G * 100) \div 10000
            net == G - fee
            funding == (net * last.pre.funding_ratio) \div 100
            liquidity == net - funding
        IN  /\ last.fee = fee
            /\ last.sol_after_fee = net
            /\ last.funding_portion = funding
            /\ last.liquidity_portion = liquidity
            /\ last.fee + last.funding_portion + last.liquidity_portion = G
            /\ campaign.real_sol_reserves
                 = last.pre.real_sol_reserves + liquidity
            /\ campaign.raised_amount = last.pre.raised_amount + net

\* a buy with a non-zero fee, funding share and liquidity share
C22_Witness ==
    /\ BuyOk
    /\ last.pre.funding_pool_amount < last.pre.target_amount
    /\ last.fee > 0
    /\ last.funding_portion > 0
    /\ last.liquidity_portion > 0
    /\ campaign.real_sol_reserves
         = last.pre.real_sol_reserves + last.liquidity_portion

\* C23: under Hybrid a successful buy with funding share F > 0 splits it into
\* an instant half floor(F/2) and a deferred half F - floor(F/2). When the
\* swap succeeds funding_pool_sol_amount grows by the deferred half and
\* funding_pool_amount by the converted amount of the instant half; when the
\* swap fails funding_pool_sol_amount grows by both halves, and
\* funding_pool_amount counts the deferred half as it does when the swap
\* succeeds, that is not at all: it grows by the instant half at most.
C23_HybridCountsShareOnce ==
    ( /\ BuyOk
      /\ last.pre.conversion_strategy = "Hybrid"
      /\ last.conv \in {"converted", "fallback"} ) =>
        LET F == last.funding_portion
            instant_portion == F \div 2
            deferred_portion == F - instant_portion
            pool == campaign.funding_pool_amount
                      - last.pre.funding_pool_amount
            pool_sol == campaign.funding_pool_sol_amount
                          - last.pre.funding_pool_sol_amount
        IN  IF last.conv = "converted"
            THEN /\ pool_sol = deferred_portion
                 /\ pool = last.usdc_amount
            ELSE /\ pool_sol = F
                 /\ pool \in {0, instant_portion}

\* C24: a successful sell of tokensIn leaves funding_pool_amount,
\* funding_pool_sol_amount, raised_amount, funds_withdrawn and
\* current_milestone unchanged; with baseOut the curve output and fee
\* floor(baseOut * 100 / 10000), it takes baseOut out of the vault, pays
\* baseOut - fee to the seller and fee to the creator, debits
\* real_sol_reserves by baseOut and credits real_token_reserves by tokensIn.
C24_SellFrame ==
    [][ (SellCall /\ last'.result = "Ok") =>
          LET S == campaign.virtual_sol_reserves + campaign.real_sol_reserves
              T == campaign.virtual_token_reserves
                     + campaign.real_token_reserves
              tokensIn == last'.amount
              baseOut == S - ((S * T) \div (T + tokensIn))
              fee == (baseOut * 100) \div 10000
          IN  /\ campaign'.funding_pool_amount = campaign.funding_pool_amount
              /\ campaign'.funding_pool_sol_amount
                   = campaign.funding_pool_sol_amount
              /\ campaign'.raised_amount = campaign.raised_amount
              /\ campaign'.funds_withdrawn = campaign.funds_withdrawn
              /\ campaign'.current_milestone = campaign.current_milestone
              /\ campaign'.real_sol_reserves
                   = campaign.real_sol_reserves - baseOut
              /\ campaign'.real_token_reserves
                   = campaign.real_token_reserves + tokensIn
              /\ bal'.vault = bal.vault - baseOut
              /\ IF last'.caller = "creator"
                 THEN bal'.creator = bal.creator + baseOut
                 ELSE /\ bal'.trader = bal.trader + (baseOut - fee)
                      /\ bal'.creator = bal.creator + fee
      ]_vars

\* tokens of the campaign's mint held outside the reserve: the creator's
\* allocation and the tokens minted by buys, less the tokens burned by sells
TokensOutstanding == bal.creator_tokens + bal.trader_tokens

\* C25: in every state the tokens outstanding plus real_token_reserves equal
\* token_total_supply, and tradeable_supply plus creator_token_allocation
\* equal token_total_supply; the three supply fields are fixed at creation
\* and the tokens outstanding never exceed token_total_supply.
C25_TokenConservation ==
    /\ created =>
          /\ TokensOutstanding + campaign.real_token_reserves
               = campaign.token_total_supply
          /\ campaign.tradeable_supply + campaign.creator_token_allocation
               = campaign.token_total_supply
          /\ TokensOutstanding <= campaign.token_total_supply
    /\ last.op \in {"buy", "sell", "withdraw", "emergency"} =>
          /\ campaign.token_total_supply = last.pre.token_total_supply
          /\ campaign.tradeable_supply = last.pre.tradeable_supply
          /\ campaign.creator_token_allocation
               = last.pre.creator_token_allocation

\* C26: in every state the vault's balance is at least real_sol_reserves: no
\* sequence of buys, sells, milestone withdrawals and emergency withdrawals
\* lets a withdrawal take base currency that backs the liquidity reserve.
C26_VaultCoversReserve ==
    created => bal.vault >= campaign.real_sol_reserves

\* C27: a successful buy conserves base currency: what the buyer is debited
\* equals what the vault is credited (the net amount, before any swap
\* outflow) plus the fee credited to the creator, so the buyer pays the gross
\* amount and no balance is credited without a matching debit.
C27_BuyConservesBase ==
    [][ (BuyCall /\ last'.result = "Ok") =>
          LET debited == bal.trader - bal'.trader
              fee_credited == bal'.creator - bal.creator
          IN  /\ fee_credited = last'.fee
              /\ debited = last'.sol_after_fee + fee_credited
              /\ debited = last'.amount
      ]_vars

\* C28: when no buy and no emergency withdrawal happens between the
\* milestone withdrawals, the successful withdrawals of all milestones pay
\* out the whole pool: once current_milestone equals the number of
\* milestones, funding_pool_amount and funding_pool_sol_amount are 0.
C28_CompleteLeavesPoolEmpty ==
    ( /\ created
      /\ ghost.undisturbed
      /\ campaign.current_milestone = Len(campaign.milestones) ) =>
        /\ campaign.funding_pool_amount = 0
        /\ campaign.funding_pool_sol_amount = 0

====
